---- MODULE Spec2Model ----
(***************************************************************************)
(* A model of the globe core of Anti-DDoS-CMC: the Globe component          *)
(* (src/unnamed/part_001), the geo utilities (geoUtils.js), the page that   *)
(* owns the countryUpdate slot (src/unnamed/part_007) and the menu panel    *)
(* that issues blacklist / unblacklist events (src/unnamed/part_006).       *)
(*                                                                         *)
(* Numbers: colour channels and blend strengths are fixed-point tenths     *)
(* (Unit = 1.0), Cartesian coordinates are fixed-point thousandths, times   *)
(* are milliseconds.                                                        *)
(***************************************************************************)
EXTENDS Integers, Sequences, FiniteSets, TLC

VARIABLES
  \* ---- Globe (part_001) ----
  mounted,              \* the setup effect has run and its cleanup has not
  isLoading,            \* useState(true), the loading indicator
  loadPc,               \* loadDots: "awaiting" the mask image, "done", "failed"
  dotIdMap,             \* dotIdMap.current: id -> dot
  regionDotsMap,        \* regionDotsMap.current: region -> ids
  regionCentroidsMap,   \* regionCentroidsMap.current: region -> <<x, y, z>>
  regionOverlayCounts,  \* regionOverlayCounts.current: region -> count
  instancedDotsMesh,    \* instancedDotsMeshRef.current is not null
  colorArray,           \* the 'color' attribute's Float32Array
  instanceMatrix,       \* the per-instance transforms
  globeSphere,          \* globeSphereRef.current / sceneRef.current are not null
  globeChildren,        \* the arc lines attached to the globe sphere
  activeArcs,           \* activeArcsRef.current
  timers,               \* pending setTimeout callbacks of drawTrafficArc
  arcLog,               \* every arc ever created: id -> [createdAt, source]
  disposed,             \* arc id -> number of geometry/material dispose() calls
  wsState,              \* the client WebSocket: "connecting", "open", "closed"
  now,                  \* the clock, in ms
  \* ---- Home (part_007) ----
  countryUpdate,        \* useState(null): the single update slot
  effectPending,        \* a commit with a new countryUpdate awaits the Globe effect
  \* ---- UIFrame / MenuPanel (part_006) ----
  isMenuPanelOpen,
  blacklistedCountries, \* countries["Blacklisted Countries"]
  localStorageBlacklist,\* localStorage['globeAppBlacklist']
  \* ---- history ----
  issuedCounts,         \* the counts if every issued event had been applied in order
  lastCall,             \* the last update or arc call the globe handled: its outcome, and
                        \* the region's count (the number of arcs) before it
  \* ---- geoUtils.js called on its own ----
  geoCall,              \* the last call of a geo utility: its name and arguments
  geoResult,            \* what that call returned
  \* ---- server.mjs ----
  wss,                  \* the WebSocketServer has been created
  webSocketGlobal,      \* the runtime defines the global WebSocket the handler names
  browserClients,       \* the Set of connected sockets
  readyState,           \* socket -> "none", "open", "closing", "closed"
  welcomed,             \* the sockets the 'connection' message was sent to
  serverCall            \* the last message the server handled, and what it sent

vars == <<mounted, isLoading, loadPc, dotIdMap, regionDotsMap, regionCentroidsMap,
          regionOverlayCounts, instancedDotsMesh, colorArray, instanceMatrix,
          globeSphere, globeChildren, activeArcs, timers, arcLog, disposed, wsState,
          now, countryUpdate, effectPending, isMenuPanelOpen, blacklistedCountries,
          localStorageBlacklist, issuedCounts, lastCall, geoCall, geoResult, wss,
          webSocketGlobal, browserClients, readyState, welcomed, serverCall>>

appVars == <<mounted, isLoading, loadPc, dotIdMap, regionDotsMap, regionCentroidsMap,
             regionOverlayCounts, instancedDotsMesh, colorArray, instanceMatrix,
             globeSphere, globeChildren, activeArcs, timers, arcLog, disposed, wsState,
             now, countryUpdate, effectPending, isMenuPanelOpen, blacklistedCountries,
             localStorageBlacklist, issuedCounts, lastCall>>
geoVars == <<geoCall, geoResult>>
serverVars == <<wss, webSocketGlobal, browserClients, readyState, welcomed, serverCall>>

globeVars == <<mounted, isLoading, loadPc, dotIdMap, regionDotsMap, regionCentroidsMap,
               regionOverlayCounts, instancedDotsMesh, colorArray, instanceMatrix,
               globeSphere>>
arcVars == <<globeChildren, activeArcs, timers, arcLog, disposed>>
pageVars == <<countryUpdate, effectPending>>
menuVars == <<isMenuPanelOpen, blacklistedCountries, localStorageBlacklist>>

----------------------------------------------------------------------------
(* Bounds of the model *)

MaxArcs == 2          \* arcs created in one run

(* Fixed-point units and program constants *)
Unit == 10            \* 1.0 in tenths
OverlayStep == 2      \* 0.2 in tenths
ArcLifetime_Short == 5000 - 1  \* a delay one millisecond short
ArcLifetime == 5000   \* the setTimeout delay of drawTrafficArc, ms
CoordScale == 1000    \* 1.0 in thousandths

Null == "null"
NaN == 999999         \* the number that is not a number: 0 / 0
Undefined == "Undefined"

Min(a, b) == IF a < b THEN a ELSE b
Max(a, b) == IF a > b THEN a ELSE b

SeqToSet(s) == {s[i] : i \in 1..Len(s)}

----------------------------------------------------------------------------
(* geoUtils.js: the region table *)

regionDefinitions == <<
  [name |-> "NorthAmerica", latMin |-> 23, latMax |-> 85, lonMin |-> -170, lonMax |-> -50,
   countries |-> <<"US", "CA", "MX">>],
  [name |-> "SouthAmerica", latMin |-> -60, latMax |-> 15, lonMin |-> -90, lonMax |-> -30,
   countries |-> <<"BR", "AR", "CO", "PE", "VE", "CL", "EC", "BO", "PY", "UY", "GY", "SR", "GF">>],
  [name |-> "CentralAsia", latMin |-> 19, latMax |-> 45, lonMin |-> 48, lonMax |-> 78,
   countries |-> <<"KZ", "KG", "TJ", "TM", "UZ", "AF">>],
  [name |-> "Europe", latMin |-> 35, latMax |-> 72, lonMin |-> -25, lonMax |-> 45,
   countries |-> <<"AL", "AD", "AM", "AT", "AZ", "BY", "BE", "BA", "BG", "HR", "CY", "CZ", "DK",
                   "EE", "FO", "FI", "FR", "GE", "DE", "GI", "GR", "HU", "IS", "IE", "IM", "IT",
                   "XK", "LV", "LI", "LT", "LU", "MT", "MD", "MC", "ME", "NL", "MK", "NO", "PL",
                   "PT", "RO", "RU", "SM", "RS", "SK", "SI", "ES", "SJ", "SE", "CH", "TR", "UA",
                   "GB", "VA">>],
  [name |-> "Africa", latMin |-> -40, latMax |-> 40, lonMin |-> -20, lonMax |-> 55,
   countries |-> <<"DZ", "AO", "BJ", "BW", "BF", "BI", "CV", "CM", "CF", "TD", "KM", "CG", "CD",
                   "CI", "DJ", "EG", "GQ", "ER", "SZ", "ET", "GA", "GM", "GH", "GN", "GW", "KE",
                   "LS", "LR", "LY", "MG", "MW", "ML", "MR", "MU", "YT", "MA", "MZ", "NA", "NE",
                   "NG", "RE", "RW", "ST", "SN", "SC", "SL", "SO", "ZA", "SS", "SD", "TZ", "TG",
                   "TN", "UG", "EH", "ZM", "ZW">>],
  [name |-> "EastAsia", latMin |-> 20, latMax |-> 50, lonMin |-> 100, lonMax |-> 150,
   countries |-> <<"CN", "JP", "KP", "KR", "MN", "TW", "HK", "MO">>],
  [name |-> "SouthAsia", latMin |-> 5, latMax |-> 38, lonMin |-> 60, lonMax |-> 100,
   countries |-> <<"BD", "BT", "IN", "MV", "NP", "PK", "LK">>],
  [name |-> "SoutheastAsia", latMin |-> -12, latMax |-> 25, lonMin |-> 92, lonMax |-> 141,
   countries |-> <<"BN", "KH", "ID", "LA", "MY", "MM", "PH", "SG", "TH", "TL", "VN">>],
  [name |-> "WestAsia", latMin |-> 12, latMax |-> 42, lonMin |-> 26, lonMax |-> 64,
   countries |-> <<"BH", "IQ", "IR", "IL", "JO", "KW", "LB", "OM", "PS", "QA", "SA", "SY", "AE", "YE">>],
  [name |-> "NorthAsia", latMin |-> 50, latMax |-> 80, lonMin |-> 60, lonMax |-> 180,
   countries |-> <<"RU">>],
  [name |-> "Oceania", latMin |-> -50, latMax |-> 0, lonMin |-> 110, lonMax |-> 180,
   countries |-> <<"AU", "NZ", "PG", "FJ", "SB", "VU", "NC", "PF", "WS", "TO", "FM", "KI", "MH",
                   "NR", "PW", "TV">>]
>>

RegionIndexes == 1..Len(regionDefinitions)
RegionNames == {regionDefinitions[i].name : i \in RegionIndexes}

\* Object.keys(regionDefinitions) plus "Undefined": the keys of the count maps.
CountKeys == RegionNames \cup {Undefined}

ListedCodes == UNION {SeqToSet(regionDefinitions[i].countries) : i \in RegionIndexes}

\* The forEach over Object.entries(regionDefinitions) assigns
\* countryToRegion[countryCode] = regionName region after region, so the entry
\* that stays is the one of the last region listing the code.
countryToRegion ==
  [c \in ListedCodes |->
     LET listing == {i \in RegionIndexes : c \in SeqToSet(regionDefinitions[i].countries)}
         last == CHOOSE i \in listing : \A j \in listing : j <= i
     IN regionDefinitions[last].name]

\* A lookup that falls back to the "Undefined" region for an unlisted code.
RegionOf_Fallback(code) ==
  IF code \in DOMAIN countryToRegion THEN countryToRegion[code] ELSE "Undefined"

\* countryToRegion[code]: the region name, or Null for JavaScript's undefined.
RegionOf(code) == IF code \in DOMAIN countryToRegion THEN countryToRegion[code] ELSE Null

----------------------------------------------------------------------------
(* geoUtils.js: points, land mask, region assignment, centroids *)

\* The generated grid the model loads: points in generateLatLonGrid's order
\* (latitude decreasing with the index), with integer degrees.
GridPoints == <<
  [lat |-> 50, lon |-> 10],
  [lat |-> 48, lon |-> 2],
  [lat |-> 40, lon |-> -100],
  [lat |-> 35, lon |-> 60],
  [lat |-> -75, lon |-> 0] >>

\* latLonToCartesian(lat, lon, 1.005) in thousandths, tabulated for GridPoints.
latLonToCartesian(lat, lon) ==
  CASE lat = 50 /\ lon = 10 -> <<636, 770, -112>>
    [] lat = 48 /\ lon = 2 -> <<672, 747, -23>>
    [] lat = 40 /\ lon = -100 -> <<-134, 646, 758>>
    [] lat = 35 /\ lon = 60 -> <<412, 576, -713>>
    [] lat = -75 /\ lon = 0 -> <<260, -971, 0>>
    [] lat = 23 /\ lon = -170 -> <<-911, 393, 161>>
    [] lat = 85 /\ lon = -50 -> <<56, 1001, 67>>
    [] lat = 86 /\ lon = -50 -> <<45, 1003, 54>>
    [] lat = 22 /\ lon = -170 -> <<-918, 376, 162>>
    [] lat = 50 /\ lon = 60 -> <<323, 770, -559>>
    [] lat = 0 /\ lon = 110 -> <<-344, 0, -944>>
    [] lat = -50 /\ lon = 180 -> <<-646, -770, 0>>
    [] lat = 15 /\ lon = -90 -> <<0, 260, 971>>
    [] lat = 40 /\ lon = 45 -> <<544, 646, -544>>
    [] lat = NaN \/ lon = NaN -> <<NaN, NaN, NaN>>

\* The land masks the image may hold: the set of grid indexes whose pixel is land.
LandMasks == { {}, {1, 2, 3, 4, 5}, {1, 2, 3}, {1, 2, 4, 5}, {2, 4} }

\* points.filter(isLand): the land points, in the order of points.
RECURSIVE FilterFrom(_, _, _)
FilterFrom(points, mask, i) ==
  IF i > Len(points) THEN <<>>
  ELSE (IF i \in mask THEN <<points[i]>> ELSE <<>>) \o FilterFrom(points, mask, i + 1)

sampleLandMask(points, mask) == FilterFrom(points, mask, 1)

\* A bounds test with strict comparisons.
InBounds_Exclusive(i, lat, lon) ==
  /\ lat # NaN /\ lon # NaN
  /\ lat > regionDefinitions[i].latMin /\ lat < regionDefinitions[i].latMax
  /\ lon > regionDefinitions[i].lonMin /\ lon < regionDefinitions[i].lonMax

\* The bounds test of assignDotsToRegions, inclusive on the four sides; every
\* comparison with NaN is false.
InBounds(i, lat, lon) ==
  /\ lat # NaN /\ lon # NaN
  /\ lat >= regionDefinitions[i].latMin /\ lat <= regionDefinitions[i].latMax
  /\ lon >= regionDefinitions[i].lonMin /\ lon <= regionDefinitions[i].lonMax

\* A scan that leaves the region unset when no bounds contain the dot.
FirstRegion_NoSentinel(lat, lon) ==
  LET hits == {i \in RegionIndexes : InBounds(i, lat, lon)}
  IN IF hits = {} THEN Null
     ELSE regionDefinitions[CHOOSE i \in hits : \A j \in hits : i <= j].name

\* The for ... break scan: the first region in declaration order, else "Undefined".
FirstRegion(lat, lon) ==
  LET hits == {i \in RegionIndexes : InBounds(i, lat, lon)}
  IN IF hits = {} THEN Undefined
     ELSE regionDefinitions[CHOOSE i \in hits : \A j \in hits : i <= j].name

\* The ids of a set in ascending order (Object.entries of integer keys).
RECURSIVE Ascending(_)
Ascending(S) ==
  IF S = {} THEN <<>>
  ELSE LET m == CHOOSE x \in S : \A y \in S : x <= y
       IN <<m>> \o Ascending(S \ {m})

\* assignDotsToRegions, its mutation of the dots: dot.region is set.
\* An assignment that leaves every dot without a region.
AssignedDots_Unassigned(dots) == dots

AssignedDots(dots) ==
  [id \in DOMAIN dots |-> [dots[id] EXCEPT !.region = FirstRegion(dots[id].lat, dots[id].lon)]]

\* assignDotsToRegions, its result: a bucket per declared region, and an
\* "Undefined" bucket once a dot matched no region.
assignDotsToRegions(dots) ==
  LET assigned == AssignedDots(dots)
      keys == RegionNames \cup {assigned[id].region : id \in DOMAIN assigned}
  IN [r \in keys |-> Ascending({id \in DOMAIN assigned : assigned[id].region = r})]

RECURSIVE SumCoord(_, _, _, _)
SumCoord(ids, dots, k, i) ==
  IF i > Len(ids) THEN 0 ELSE dots[ids[i]].xyz[k] + SumCoord(ids, dots, k, i + 1)

\* Math.sqrt on thousandths: the integer square root.
Sqrt(v) == CHOOSE r \in 0..(2 * CoordScale) : r * r <= v /\ v < (r + 1) * (r + 1)

ZeroVector == <<0, 0, 0>>

\* dot && typeof dot.x === 'number' && ...: the dot exists and has coordinates.
HasCoordinates(id, dots) == id \in DOMAIN dots /\ Len(dots[id].xyz) = 3

\* The member ids that enter the sums: validDotsCount is their number.
ValidDotIds(ids, dots) == SelectSeq(ids, LAMBDA id : HasCoordinates(id, dots))

\* A computation that gives a region without valid dots no entry.
calculateRegionCentroids_SkipEmpty(regionDots, dots) ==
  [r \in {q \in DOMAIN regionDots : Len(ValidDotIds(regionDots[q], dots)) > 0} |->
     LET ids == ValidDotIds(regionDots[r], dots)
         avg == [k \in 1..3 |-> SumCoord(ids, dots, k, 1) \div Len(ids)]
         length == Sqrt(avg[1] * avg[1] + avg[2] * avg[2] + avg[3] * avg[3])
     IN IF length = 0 THEN ZeroVector
        ELSE [k \in 1..3 |-> (avg[k] * CoordScale) \div length]]

\* calculateRegionCentroids: the zero vector for a region without (valid) dots
\* or with a zero-length average, else the average pushed back to the unit
\* sphere.
calculateRegionCentroids(regionDots, dots) ==
  [r \in DOMAIN regionDots |->
     LET ids == ValidDotIds(regionDots[r], dots)
         n == Len(ids)
     IN IF n = 0 THEN ZeroVector
        ELSE LET avg == [k \in 1..3 |-> SumCoord(ids, dots, k, 1) \div n]
                 length == Sqrt(avg[1] * avg[1] + avg[2] * avg[2] + avg[3] * avg[3])
             IN IF length = 0 THEN ZeroVector
                ELSE [k \in 1..3 |-> (avg[k] * CoordScale) \div length]]

----------------------------------------------------------------------------
(* Globe: overlay colours *)

White == <<Unit, Unit, Unit>>   \* new THREE.Color(0xffffff)
Red == <<Unit, 0, 0>>           \* new THREE.Color(0xff0000)

\* A blend strength that is not clamped to 1.0.
OverlayStrength_Unclamped(count) == count * OverlayStep

\* Math.min(count * 0.2, 1.0)
OverlayStrength(count) == Min(count * OverlayStep, Unit)

\* Color.lerp: each channel moves from a towards b by alpha.
Lerp(a, b, alpha) == [k \in 1..3 |-> a[k] + ((b[k] - a[k]) * alpha) \div Unit]

FinalColor(count) == Lerp(White, Red, OverlayStrength(count))

\* regionOverlayCounts.current[region] || 0
CountOf(counts, region) == IF region \in DOMAIN counts THEN counts[region] ELSE 0

\* The dots a colour write touches: dot.region === regionName.
DotsOfRegion(dots, regionName) == {id \in DOMAIN dots : dots[id].region = regionName}

\* The dots the colour loop visits: Object.values(dotIdMap.current).forEach
\* runs its callback, which reads dot.region, for every dot of the map.
ScannedDots(dots, regionName) == DOMAIN dots

\* A colour write that forgets the dot.region === regionName test.
WriteRegionColor_AllDots(array, dots, regionName, color) ==
  [j \in DOMAIN array |-> color[((j - 1) % 3) + 1]]

\* finalColor.toArray(colorAttribute.array, dot.instanceIndex * 3) for the dots
\* of one region; the array is 0-based in the code and 1-based here.
WriteRegionColor(array, dots, regionName, color) ==
  [j \in DOMAIN array |->
     IF \E id \in DotsOfRegion(dots, regionName) :
          j \in (dots[id].instanceIndex * 3 + 1)..(dots[id].instanceIndex * 3 + 3)
     THEN color[((j - 1) % 3) + 1]
     ELSE array[j]]

\* A load that leaves every dot white whatever the stored counts.
PaintInitial_NoPaint(array, dots, counts, regions) == array

\* The initial overlay pass of loadDots: every region with count > 0 is painted.
RECURSIVE PaintInitial(_, _, _, _)
PaintInitial(array, dots, counts, regions) ==
  IF regions = {} THEN array
  ELSE LET r == CHOOSE x \in regions : TRUE
           painted == IF counts[r] > 0
                      THEN WriteRegionColor(array, dots, r, FinalColor(counts[r]))
                      ELSE array
       IN PaintInitial(painted, dots, counts, regions \ {r})

EmptyMap == [x \in {} |-> 0]

\* The initialCounts of the setup effect: one per stored country with a region.
RECURSIVE InitialCounts(_, _)
InitialCounts(stored, i) ==
  IF i = 0 THEN [r \in CountKeys |-> 0]
  ELSE LET before == InitialCounts(stored, i - 1)
           regionName == RegionOf(stored[i])
       IN IF regionName # Null
          THEN [before EXCEPT ![regionName] = before[regionName] + 1]
          ELSE before

----------------------------------------------------------------------------
(* Home and MenuPanel: the inputs of the model *)

\* The menu's countries the model uses, in ascending order of their names:
\* Antigua and Barbuda, Austria, Belgium, Denmark, Finland, France, Germany,
\* Kazakhstan, United States.  "AG" is in countryData and in no region.
countryData == <<"AG", "AT", "BE", "DK", "FI", "FR", "DE", "KZ", "US">>

NameRank(code) == CHOOSE i \in 1..Len(countryData) : countryData[i] = code

\* The blacklists localStorage may hold when the page is loaded.
StoredBlacklists == { <<>>, <<"KZ", "AG">>, <<"AT", "BE", "DK", "FI">> }

\* The countries the user acts on through the context menu.
InteractiveCodes == {"FR", "DE", "AG"}

\* list.sort((a, b) => a.name.localeCompare(b.name))
RECURSIVE SortByName(_)
SortByName(list) ==
  IF list = <<>> THEN <<>>
  ELSE LET S == SeqToSet(list)
           first == CHOOSE c \in S : \A d \in S : NameRank(c) <= NameRank(d)
       IN <<first>> \o SortByName(SelectSeq(list, LAMBDA c : c # first))

NoUpdate == [type |-> "none", code |-> "", isInitial |-> FALSE]
NoCall == [op |-> "none", code |-> "", outcome |-> "none", before |-> 0]
NoGeoCall == [fn |-> "none"]

\* handleBlacklistCountryOnPage / handleUnblacklistCountryOnPage: the object
\* handed to setCountryUpdate (name and timestamp are not read by the globe).
BlacklistUpdate(code, isInitial) == [type |-> "blacklist", code |-> code, isInitial |-> isInitial]
UnblacklistUpdate(code) == [type |-> "unblacklist", code |-> code, isInitial |-> FALSE]

----------------------------------------------------------------------------
(* Globe: the countryUpdate effect *)

\* An unblacklist without Math.max(0, ...).
NextCount_NoFloor(type, isInitial, current) ==
  CASE type = "blacklist" -> IF isInitial THEN current ELSE current + 1
    [] type = "unblacklist" -> current - 1
    [] OTHER -> current

\* A blacklist that increments on the initial replay too.
NextCount_CountsReplay(type, isInitial, current) ==
  CASE type = "blacklist" -> current + 1
    [] type = "unblacklist" -> Max(0, current - 1)
    [] OTHER -> current

\* The count the effect stores for the region of an update.
NextCount(type, isInitial, current) ==
  CASE type = "blacklist" -> IF isInitial THEN current ELSE current + 1
    [] type = "unblacklist" -> Max(0, current - 1)
    [] OTHER -> current

\* The first guard of the effect: nothing to do or the globe is not loaded.
EffectNotReady(u, mesh, dots) == u.type = "none" \/ u.code = "" \/ ~mesh \/ DOMAIN dots = {}

\* An update that stores the new count under every region.
CountsAfter_EveryRegion(counts, u) ==
  LET regionName == RegionOf(u.code)
  IN IF regionName = Null THEN counts
     ELSE [r \in DOMAIN counts \cup {regionName} |->
             NextCount(u.type, u.isInitial, CountOf(counts, r))]

\* The counts after the effect handled update u.
CountsAfter(counts, u) ==
  LET regionName == RegionOf(u.code)
  IN IF regionName = Null THEN counts
     ELSE LET next == NextCount(u.type, u.isInitial, CountOf(counts, regionName))
          IN [r \in DOMAIN counts \cup {regionName} |->
                IF r = regionName THEN next ELSE counts[r]]

\* The colour array after the effect handled update u.
ColorsAfter(array, dots, counts, u) ==
  LET regionName == RegionOf(u.code)
  IN IF regionName = Null THEN array
     ELSE WriteRegionColor(array, dots, regionName,
                           FinalColor(CountOf(CountsAfter(counts, u), regionName)))

CountryUpdateEffect ==
  /\ mounted
  /\ effectPending
  /\ effectPending' = FALSE
  /\ IF EffectNotReady(countryUpdate, instancedDotsMesh, dotIdMap)
     THEN /\ UNCHANGED <<regionOverlayCounts, colorArray>>
          /\ lastCall' = [op |-> "update", code |-> countryUpdate.code, outcome |-> "notReady",
                          before |-> 0]
     ELSE /\ regionOverlayCounts' = CountsAfter(regionOverlayCounts, countryUpdate)
          /\ colorArray' = ColorsAfter(colorArray, dotIdMap, regionOverlayCounts, countryUpdate)
          /\ lastCall' = [op |-> "update", code |-> countryUpdate.code,
                          outcome |-> IF RegionOf(countryUpdate.code) = Null
                                      THEN "unmapped" ELSE "applied",
                          before |-> CountOf(regionOverlayCounts, RegionOf(countryUpdate.code))]
  /\ UNCHANGED <<mounted, isLoading, loadPc, dotIdMap, regionDotsMap, regionCentroidsMap,
                 instancedDotsMesh, instanceMatrix, globeSphere, wsState, now,
                 countryUpdate, issuedCounts>>
  /\ UNCHANGED arcVars
  /\ UNCHANGED menuVars
  /\ UNCHANGED geoVars
  /\ UNCHANGED serverVars

----------------------------------------------------------------------------
(* Globe: loadDots *)

\* The dots of the land points: id = index + 1, instanceIndex = index.
DotsOf(landPoints) ==
  [id \in 1..Len(landPoints) |->
     [lat |-> landPoints[id].lat, lon |-> landPoints[id].lon, instanceIndex |-> id - 1,
      xyz |-> latLonToCartesian(landPoints[id].lat, landPoints[id].lon), region |-> Null]]

\* The colour array of a new mesh: every instance white.
WhiteArray(n) == [j \in 1..(3 * n) |-> Unit]

\* setMatrixAt(index, matrix): the transform is the placement of the point.
MatricesOf(landPoints) ==
  [i \in 1..Len(landPoints) |-> latLonToCartesian(landPoints[i].lat, landPoints[i].lon)]

\* The image loads and sampleLandMask resolves: the rest of loadDots runs.
LoadDotsResolve(mask) ==
  /\ loadPc = "awaiting"
  /\ loadPc' = "done"
  /\ isLoading' = IF mounted THEN FALSE ELSE isLoading
  /\ LET landPoints == sampleLandMask(GridPoints, mask)
         dots == DotsOf(landPoints)
     IN IF Len(landPoints) = 0
        THEN UNCHANGED <<dotIdMap, regionDotsMap, regionCentroidsMap, instancedDotsMesh,
                         colorArray, instanceMatrix>>
        ELSE /\ instancedDotsMesh' = TRUE
             /\ instanceMatrix' = MatricesOf(landPoints)
             /\ IF ~globeSphere
                THEN \* globeSphereRef.current.add throws; the catch logs it
                     /\ dotIdMap' = dots
                     /\ colorArray' = WhiteArray(Len(landPoints))
                     /\ UNCHANGED <<regionDotsMap, regionCentroidsMap>>
                ELSE /\ dotIdMap' = AssignedDots(dots)
                     /\ regionDotsMap' = assignDotsToRegions(dots)
                     /\ colorArray' = PaintInitial(WhiteArray(Len(landPoints)), AssignedDots(dots),
                                                   regionOverlayCounts, DOMAIN regionOverlayCounts)
                     /\ regionCentroidsMap' =
                          calculateRegionCentroids(assignDotsToRegions(dots), AssignedDots(dots))
  /\ UNCHANGED <<mounted, regionOverlayCounts, globeSphere, wsState, now, issuedCounts, lastCall>>
  /\ UNCHANGED arcVars
  /\ UNCHANGED pageVars
  /\ UNCHANGED menuVars
  /\ UNCHANGED geoVars
  /\ UNCHANGED serverVars

\* The image fails to load: sampleLandMask rejects, the catch logs, and the
\* statement after the try block clears the loading indicator.
LoadDotsReject ==
  /\ loadPc = "awaiting"
  /\ loadPc' = "failed"
  /\ isLoading' = IF mounted THEN FALSE ELSE isLoading
  /\ UNCHANGED <<mounted, dotIdMap, regionDotsMap, regionCentroidsMap, regionOverlayCounts,
                 instancedDotsMesh, colorArray, instanceMatrix, globeSphere, wsState, now,
                 issuedCounts, lastCall>>
  /\ UNCHANGED arcVars
  /\ UNCHANGED pageVars
  /\ UNCHANGED menuVars
  /\ UNCHANGED geoVars
  /\ UNCHANGED serverVars

----------------------------------------------------------------------------
(* MenuPanel and UIFrame *)

\* toggleMenuPanel, and the replay effect that runs when the panel opens:
\* onBlacklistCountry(id, name, true) for every stored country, each a
\* setCountryUpdate of the same batch, so the slot keeps the last one.
ToggleMenuPanel ==
  /\ mounted
  /\ ~effectPending
  /\ isMenuPanelOpen' = ~isMenuPanelOpen
  /\ IF ~isMenuPanelOpen /\ localStorageBlacklist # <<>>
     THEN /\ countryUpdate' =
               BlacklistUpdate(localStorageBlacklist[Len(localStorageBlacklist)], TRUE)
          /\ effectPending' = TRUE
     ELSE UNCHANGED <<countryUpdate, effectPending>>
  /\ UNCHANGED <<blacklistedCountries, localStorageBlacklist, wsState, now, issuedCounts, lastCall>>
  /\ UNCHANGED globeVars
  /\ UNCHANGED arcVars
  /\ UNCHANGED geoVars
  /\ UNCHANGED serverVars

\* What an event does to the counts when it is applied: the history's step.
IssuedAfter(counts, u) == CountsAfter(counts, u)

\* handleContextMenuAction, action 'Blacklist', on a non-blacklisted country.
ContextMenuBlacklist(code) ==
  /\ mounted
  /\ isMenuPanelOpen
  /\ ~effectPending
  /\ code \notin SeqToSet(blacklistedCountries)
  /\ countryUpdate' = BlacklistUpdate(code, FALSE)
  /\ effectPending' = TRUE
  /\ localStorageBlacklist' = Append(blacklistedCountries, code)
  /\ blacklistedCountries' = SortByName(Append(blacklistedCountries, code))
  /\ issuedCounts' = IssuedAfter(issuedCounts, BlacklistUpdate(code, FALSE))
  /\ UNCHANGED <<isMenuPanelOpen, wsState, now, lastCall>>
  /\ UNCHANGED globeVars
  /\ UNCHANGED arcVars
  /\ UNCHANGED geoVars
  /\ UNCHANGED serverVars

\* handleContextMenuAction, action 'Unblacklist', on a blacklisted country.
ContextMenuUnblacklist(code) ==
  /\ mounted
  /\ isMenuPanelOpen
  /\ ~effectPending
  /\ code \in SeqToSet(blacklistedCountries)
  /\ countryUpdate' = UnblacklistUpdate(code)
  /\ effectPending' = TRUE
  /\ localStorageBlacklist' = SelectSeq(blacklistedCountries, LAMBDA c : c # code)
  /\ blacklistedCountries' = SortByName(SelectSeq(blacklistedCountries, LAMBDA c : c # code))
  /\ issuedCounts' = IssuedAfter(issuedCounts, UnblacklistUpdate(code))
  /\ UNCHANGED <<isMenuPanelOpen, wsState, now, lastCall>>
  /\ UNCHANGED globeVars
  /\ UNCHANGED arcVars
  /\ UNCHANGED geoVars
  /\ UNCHANGED serverVars

----------------------------------------------------------------------------
(* Globe: traffic arcs and the WebSocket client *)

TargetRegionName == "NorthAmerica"

\* The instants at which the event loop runs a callback, in ms.
Instants == {0, 1, 4999, 5000, 5001}

\* The country codes traffic messages carry: "ZZ" is in no region.
ArcCodes == {"FR", "US", "ZZ"}

\* The land masks of the arcs' specification: no land, land everywhere, no
\* land in Europe.
ArcLandMasks == { {}, {1, 2, 3, 4, 5}, {3, 4, 5} }

MaxPayload == 2       \* elements of one trafficUpdate payload

\* The arc state drawTrafficArc reads and writes, as one record.
ArcState == [children |-> globeChildren, active |-> activeArcs, pending |-> timers,
             log |-> arcLog, disp |-> disposed, last |-> lastCall]

\* The guards without the sourceRegionName === targetRegionName test.
ArcOutcome_NoSelfArcTest(sourceCountryCode, sphere, centroids) ==
  LET sourceRegionName == RegionOf(sourceCountryCode)
  IN CASE ~sphere \/ DOMAIN centroids = {} -> "notReady"
       [] sourceRegionName = Null \/ sourceRegionName = Undefined -> "unmapped"
       [] sourceRegionName \notin DOMAIN centroids -> "noSourceCentroid"
       [] TargetRegionName \notin DOMAIN centroids -> "noTargetCentroid"
       [] OTHER -> "created"

\* The guards of drawTrafficArc, in the order of the code: why a call for
\* sourceCountryCode returns early, or "created".
ArcOutcome(sourceCountryCode, sphere, centroids) ==
  LET sourceRegionName == RegionOf(sourceCountryCode)
  IN CASE ~sphere \/ DOMAIN centroids = {} -> "notReady"
       [] sourceRegionName = Null \/ sourceRegionName = Undefined -> "unmapped"
       [] sourceRegionName = TargetRegionName -> "sameRegion"
       [] sourceRegionName \notin DOMAIN centroids -> "noSourceCentroid"
       [] TargetRegionName \notin DOMAIN centroids -> "noTargetCentroid"
       [] OTHER -> "created"

\* drawTrafficArc(sourceCountryCode) at time t.
drawTrafficArc(st, sourceCountryCode, sphere, centroids, t) ==
  LET outcome == ArcOutcome(sourceCountryCode, sphere, centroids)
      call == [op |-> "drawArc", code |-> sourceCountryCode, outcome |-> outcome,
               before |-> Len(st.log)]
      arcLine == Len(st.log) + 1
  IN IF outcome # "created" THEN [st EXCEPT !.last = call]
     ELSE [children |-> st.children \cup {arcLine},
           active |-> Append(st.active, arcLine),
           pending |-> st.pending \cup {[arc |-> arcLine, due |-> t + ArcLifetime]},
           log |-> Append(st.log, [createdAt |-> t,
                                   source |-> RegionOf(sourceCountryCode),
                                   startPoint |-> centroids[RegionOf(sourceCountryCode)],
                                   endPoint |-> centroids[TargetRegionName]]),
           disp |-> Append(st.disp, 0),
           last |-> call]

\* if (item.countryCode): the element carries a non-empty country code.
CarriesCountryCode(item) == item # ""

\* A loop that stops after the first element of the payload.
DrawPayload_FirstOnly(st, payload, i, sphere, centroids, t) ==
  IF Len(payload) = 0 \/ ~CarriesCountryCode(payload[1]) THEN st
  ELSE drawTrafficArc(st, payload[1], sphere, centroids, t)

\* messageData.payload.forEach(item => { if (item.countryCode) drawTrafficArc(...) })
RECURSIVE DrawPayload(_, _, _, _, _, _)
DrawPayload(st, payload, i, sphere, centroids, t) ==
  IF i > Len(payload) THEN st
  ELSE DrawPayload(IF CarriesCountryCode(payload[i])
                   THEN drawTrafficArc(st, payload[i], sphere, centroids, t)
                   ELSE st,
                   payload, i + 1, sphere, centroids, t)

\* The payloads of the model: lists of country codes, and three lists with an
\* element without a countryCode, written "".
Payloads ==
  UNION {[1..n -> ArcCodes] : n \in 0..MaxPayload} \cup { <<"">>, <<"", "FR">>, <<"FR", "">> }

\* The messages the socket may deliver.
Messages ==
  {[kind |-> "badJson", payload |-> <<>>], [kind |-> "connection", payload |-> <<>>],
   [kind |-> "notAList", payload |-> <<>>]}
  \cup {[kind |-> "trafficUpdate", payload |-> p] : p \in Payloads}

\* What the try block of onmessage does with a message: JSON.parse throws on
\* text that is no JSON, payload.forEach throws on a payload that is no array,
\* a message of another type passes the if untouched.
MessageOutcome(msg) ==
  CASE msg.kind = "badJson" -> "threw"
    [] msg.kind = "notAList" -> "threw"
    [] msg.kind = "trafficUpdate" -> "drawn"
    [] OTHER -> "ignored"

\* A catch block that gives the connection up.
OnMessageCatch_Closes(ws) == "closed"

\* catch (e) { console.error(...) }: the socket is left as it is.
OnMessageCatch(ws) == ws

\* websocket.onmessage
OnMessage(msg) ==
  /\ wsState = "open"
  /\ Len(arcLog) + Len(msg.payload) <= MaxArcs
  /\ LET st == IF MessageOutcome(msg) = "drawn"
               THEN DrawPayload(ArcState, msg.payload, 1, globeSphere, regionCentroidsMap, now)
               ELSE [ArcState EXCEPT !.last = [op |-> "message", code |-> "",
                                               outcome |-> MessageOutcome(msg),
                                               before |-> Len(arcLog)]]
     IN /\ globeChildren' = st.children
        /\ activeArcs' = st.active
        /\ timers' = st.pending
        /\ arcLog' = st.log
        /\ disposed' = st.disp
        /\ lastCall' = st.last
  /\ wsState' = IF MessageOutcome(msg) = "threw" THEN OnMessageCatch(wsState) ELSE wsState
  /\ UNCHANGED <<now, issuedCounts>>
  /\ UNCHANGED globeVars
  /\ UNCHANGED pageVars
  /\ UNCHANGED menuVars
  /\ UNCHANGED geoVars
  /\ UNCHANGED serverVars

\* The callback drawTrafficArc handed to setTimeout: it runs no earlier than
\* its due time.
TimerFire(timer) ==
  /\ timer \in timers
  /\ now >= timer.due
  /\ timers' = timers \ {timer}
  /\ globeChildren' = IF globeSphere THEN globeChildren \ {timer.arc} ELSE globeChildren
  /\ disposed' = [disposed EXCEPT ![timer.arc] = disposed[timer.arc] + 1]
  /\ activeArcs' = SelectSeq(activeArcs, LAMBDA arc : arc # timer.arc)
  /\ UNCHANGED <<arcLog, wsState, now, issuedCounts, lastCall>>
  /\ UNCHANGED globeVars
  /\ UNCHANGED pageVars
  /\ UNCHANGED menuVars
  /\ UNCHANGED geoVars
  /\ UNCHANGED serverVars

\* Time passes until the next callback runs.
Tick(t) ==
  /\ t > now
  /\ now' = t
  /\ UNCHANGED <<wsState, issuedCounts, lastCall>>
  /\ UNCHANGED globeVars
  /\ UNCHANGED arcVars
  /\ UNCHANGED pageVars
  /\ UNCHANGED menuVars
  /\ UNCHANGED geoVars
  /\ UNCHANGED serverVars

\* websocket.onopen
WsOpen ==
  /\ wsState = "connecting"
  /\ wsState' = "open"
  /\ UNCHANGED <<now, issuedCounts, lastCall>>
  /\ UNCHANGED globeVars
  /\ UNCHANGED arcVars
  /\ UNCHANGED pageVars
  /\ UNCHANGED menuVars
  /\ UNCHANGED geoVars
  /\ UNCHANGED serverVars

\* An onclose handler that calls connectWebSocket again.
WsClose_Reconnect ==
  /\ wsState \in {"connecting", "open"}
  /\ wsState' = "connecting"
  /\ UNCHANGED <<now, issuedCounts, lastCall>>
  /\ UNCHANGED globeVars
  /\ UNCHANGED arcVars
  /\ UNCHANGED pageVars
  /\ UNCHANGED menuVars
  /\ UNCHANGED geoVars
  /\ UNCHANGED serverVars

\* websocket.onerror / websocket.onclose: logged, and nothing reconnects.
WsClose ==
  /\ wsState \in {"connecting", "open"}
  /\ wsState' = "closed"
  /\ UNCHANGED <<now, issuedCounts, lastCall>>
  /\ UNCHANGED globeVars
  /\ UNCHANGED arcVars
  /\ UNCHANGED pageVars
  /\ UNCHANGED menuVars
  /\ UNCHANGED geoVars
  /\ UNCHANGED serverVars

----------------------------------------------------------------------------
(* Globe: teardown *)

\* A cleanup that keeps the globe and the centroid map.
Teardown_KeepsGlobe ==
  /\ mounted
  /\ mounted' = FALSE
  /\ globeChildren' = globeChildren \ SeqToSet(activeArcs)
  /\ disposed' = [a \in DOMAIN disposed |->
                    IF a \in SeqToSet(activeArcs) THEN disposed[a] + 1 ELSE disposed[a]]
  /\ activeArcs' = <<>>
  /\ dotIdMap' = EmptyMap
  /\ regionDotsMap' = EmptyMap
  /\ regionOverlayCounts' = EmptyMap
  /\ instancedDotsMesh' = FALSE
  /\ wsState' = IF wsState = "open" THEN "closed" ELSE wsState
  /\ UNCHANGED <<isLoading, loadPc, colorArray, instanceMatrix, timers, arcLog, now,
                 issuedCounts, lastCall, regionCentroidsMap, globeSphere>>
  /\ UNCHANGED pageVars
  /\ UNCHANGED menuVars
  /\ UNCHANGED geoVars
  /\ UNCHANGED serverVars

\* The cleanup of the setup effect.
Teardown ==
  /\ mounted
  /\ mounted' = FALSE
  /\ globeChildren' = globeChildren \ SeqToSet(activeArcs)
  /\ disposed' = [a \in DOMAIN disposed |->
                    IF a \in SeqToSet(activeArcs) THEN disposed[a] + 1 ELSE disposed[a]]
  /\ activeArcs' = <<>>
  /\ dotIdMap' = EmptyMap
  /\ regionDotsMap' = EmptyMap
  /\ regionCentroidsMap' = EmptyMap
  /\ regionOverlayCounts' = EmptyMap
  /\ instancedDotsMesh' = FALSE
  /\ globeSphere' = FALSE
  /\ wsState' = IF wsState = "open" THEN "closed" ELSE wsState
  /\ UNCHANGED <<isLoading, loadPc, colorArray, instanceMatrix, timers, arcLog, now,
                 issuedCounts, lastCall>>
  /\ UNCHANGED pageVars
  /\ UNCHANGED menuVars
  /\ UNCHANGED geoVars
  /\ UNCHANGED serverVars

----------------------------------------------------------------------------
(* server.mjs: the WebSocket relay *)

MaxClients == 3       \* sockets that connect to the server

Clients == 1..MaxClients

\* JSON.parse(messageString): a SyntaxError, or the parsed value; an object is
\* the list of its own enumerable [key, value] pairs.
ServerMessages ==
  { [kind |-> "unparsable", entries |-> <<>>],
    [kind |-> "null", entries |-> <<>>],
    [kind |-> "number", entries |-> <<>>],
    [kind |-> "string", entries |-> <<<<"0", "U">>, <<"1", "S">>>>],
    [kind |-> "array", entries |-> <<<<"0", "US">>>>],
    [kind |-> "object", entries |-> <<>>],
    [kind |-> "object", entries |-> <<<<"1.1.1.1", "US">>>>],
    [kind |-> "object", entries |-> <<<<"1.1.1.1", "US">>, <<"2.2.2.2", "FR">>>>] }

NoServerCall == [op |-> "none"]

\* Object.entries(agentData).map(([ip, countryCode]) => ({ip, countryCode}))
trafficDataForFrontend(msg) ==
  [i \in 1..Len(msg.entries) |-> [ip |-> msg.entries[i][1], countryCode |-> msg.entries[i][2]]]

\* What the try block of the message handler does with a message from ws:
\* JSON.parse throws on an unparsable string and Object.entries on null; the
\* test client.readyState === WebSocket.OPEN, reached for the first client
\* other than ws, throws a ReferenceError where the runtime defines no global
\* WebSocket (the module imports WebSocketServer only); the catch logs.
BroadcastOutcome(msg, ws, clients, global) ==
  CASE msg.kind \in {"unparsable", "null"} -> "threw"
    [] Len(msg.entries) = 0 -> "none"
    [] ~global /\ clients \ {ws} # {} -> "threw"
    [] OTHER -> "broadcast"

\* The number of client.send(broadcastMessage) calls per socket.
BroadcastSends(msg, ws, clients, states, global) ==
  [client \in Clients |->
     IF /\ BroadcastOutcome(msg, ws, clients, global) = "broadcast"
        /\ client \in clients /\ client # ws /\ states[client] = "open"
     THEN 1 ELSE 0]

\* app.prepare().then(...): new WebSocketServer, on a runtime with or without
\* the global WebSocket.
ServerStart(global) ==
  /\ ~wss
  /\ wss' = TRUE
  /\ webSocketGlobal' = global
  /\ UNCHANGED <<browserClients, readyState, welcomed, serverCall>>
  /\ UNCHANGED appVars
  /\ UNCHANGED geoVars

\* wss.on('connection'): the socket is added and welcomed.
Connection(ws) ==
  /\ wss
  /\ readyState[ws] = "none"
  /\ readyState' = [readyState EXCEPT ![ws] = "open"]
  /\ browserClients' = browserClients \cup {ws}
  /\ welcomed' = welcomed \cup {ws}
  /\ UNCHANGED <<wss, webSocketGlobal, serverCall>>
  /\ UNCHANGED appVars
  /\ UNCHANGED geoVars

\* ws.on('message')
ServerOnMessage(ws, msg) ==
  /\ readyState[ws] = "open"
  /\ serverCall' = [op |-> "message", from |-> ws, msg |-> msg,
                    outcome |-> BroadcastOutcome(msg, ws, browserClients, webSocketGlobal),
                    payload |-> trafficDataForFrontend(msg),
                    sends |-> BroadcastSends(msg, ws, browserClients, readyState,
                                             webSocketGlobal)]
  /\ UNCHANGED <<wss, webSocketGlobal, browserClients, readyState, welcomed>>
  /\ UNCHANGED appVars
  /\ UNCHANGED geoVars

\* The closing handshake of a socket starts; its 'close' event is yet to come.
ClientClosing(ws) ==
  /\ readyState[ws] = "open"
  /\ readyState' = [readyState EXCEPT ![ws] = "closing"]
  /\ UNCHANGED <<wss, webSocketGlobal, browserClients, welcomed, serverCall>>
  /\ UNCHANGED appVars
  /\ UNCHANGED geoVars

\* ws.on('close')
ClientClose(ws) ==
  /\ readyState[ws] \in {"open", "closing"}
  /\ readyState' = [readyState EXCEPT ![ws] = "closed"]
  /\ browserClients' = browserClients \ {ws}
  /\ UNCHANGED <<wss, webSocketGlobal, welcomed, serverCall>>
  /\ UNCHANGED appVars
  /\ UNCHANGED geoVars

\* ws.on('error'): the socket, closing by then, is removed; 'close' follows.
ClientError(ws) ==
  /\ readyState[ws] \in {"open", "closing"}
  /\ ws \in browserClients
  /\ readyState' = [readyState EXCEPT ![ws] = "closing"]
  /\ browserClients' = browserClients \ {ws}
  /\ UNCHANGED <<wss, webSocketGlobal, welcomed, serverCall>>
  /\ UNCHANGED appVars
  /\ UNCHANGED geoVars

----------------------------------------------------------------------------
(* The specification *)

Init ==
  /\ mounted = TRUE
  /\ isLoading = TRUE
  /\ loadPc = "awaiting"
  /\ dotIdMap = EmptyMap
  /\ regionDotsMap = EmptyMap
  /\ regionCentroidsMap = EmptyMap
  /\ localStorageBlacklist \in StoredBlacklists
  /\ blacklistedCountries = localStorageBlacklist
  /\ regionOverlayCounts = InitialCounts(localStorageBlacklist, Len(localStorageBlacklist))
  /\ issuedCounts = regionOverlayCounts
  /\ instancedDotsMesh = FALSE
  /\ colorArray = <<>>
  /\ instanceMatrix = <<>>
  /\ globeSphere = TRUE
  /\ globeChildren = {}
  /\ activeArcs = <<>>
  /\ timers = {}
  /\ arcLog = <<>>
  /\ disposed = <<>>
  /\ wsState = "connecting"
  /\ now = 0
  /\ countryUpdate = NoUpdate
  /\ effectPending = FALSE
  /\ isMenuPanelOpen = FALSE
  /\ lastCall = NoCall
  /\ geoCall = NoGeoCall
  /\ geoResult = <<>>
  /\ wss = FALSE
  /\ webSocketGlobal = FALSE
  /\ browserClients = {}
  /\ readyState = [client \in Clients |-> "none"]
  /\ welcomed = {}
  /\ serverCall = NoServerCall

Next ==
  \/ \E mask \in LandMasks : LoadDotsResolve(mask)
  \/ LoadDotsReject
  \/ ToggleMenuPanel
  \/ \E code \in InteractiveCodes : ContextMenuBlacklist(code)
  \/ \E code \in InteractiveCodes : ContextMenuUnblacklist(code)
  \/ CountryUpdateEffect
  \/ Teardown

Spec == Init /\ [][Next]_vars

\* The arcs' specification: the load, the socket, the timers and the clock,
\* with the overlay updates of one country in between.
NextArcs ==
  \/ \E mask \in ArcLandMasks : LoadDotsResolve(mask)
  \/ LoadDotsReject
  \/ WsOpen
  \/ WsClose
  \/ \E msg \in Messages : OnMessage(msg)
  \/ \E timer \in timers : TimerFire(timer)
  \/ \E t \in Instants : Tick(t)
  \/ ToggleMenuPanel
  \/ ContextMenuBlacklist("FR")
  \/ CountryUpdateEffect
  \/ Teardown

InitArcs == Init /\ localStorageBlacklist = <<>>

SpecArcs == InitArcs /\ [][NextArcs]_vars

\* The server's specification: the start, the sockets and their messages.
NextServer ==
  \/ \E global \in BOOLEAN : ServerStart(global)
  \/ \E ws \in Clients : Connection(ws)
  \/ \E ws \in Clients : \E msg \in ServerMessages : ServerOnMessage(ws, msg)
  \/ \E ws \in Clients : ClientClosing(ws)
  \/ \E ws \in Clients : ClientClose(ws)
  \/ \E ws \in Clients : ClientError(ws)

InitServer == Init /\ localStorageBlacklist = <<>>

SpecServer == InitServer /\ [][NextServer]_vars

----------------------------------------------------------------------------
(* geoUtils.js: the utilities called on their own, one call on fresh         *)
(* arguments per behaviour, and a second filtering of a filtered list        *)

MaxDots == 2          \* dots of one assignDotsToRegions call

\* The points handed to assignDotsToRegions: inside one region, inside several,
\* on the sides and corners of bounds, one degree outside, in no region, NaN.
AssignPoints ==
  { [lat |-> 35, lon |-> 60], [lat |-> 23, lon |-> -170], [lat |-> 85, lon |-> -50],
    [lat |-> 86, lon |-> -50], [lat |-> 22, lon |-> -170], [lat |-> 50, lon |-> 60],
    [lat |-> 0, lon |-> 110], [lat |-> -50, lon |-> 180], [lat |-> 15, lon |-> -90],
    [lat |-> 40, lon |-> 45], [lat |-> -75, lon |-> 0], [lat |-> NaN, lon |-> NaN] }

AssignInputs == UNION {[1..n -> AssignPoints] : n \in 1..MaxDots}

\* assignDotsToRegions(dotIdMap) on the dots loadDots builds from points.
AssignCall(points) ==
  /\ geoCall.fn = "none"
  /\ geoCall' = [fn |-> "assign", dots |-> DotsOf(points)]
  /\ geoResult' = [regionDots |-> assignDotsToRegions(DotsOf(points)),
                   dots |-> AssignedDots(DotsOf(points))]
  /\ UNCHANGED appVars
  /\ UNCHANGED serverVars

\* The codes looked up in countryToRegion: every listed code, and two that no
\* region lists.
LookupCodes == ListedCodes \cup {"AG", "ZZ"}

\* countryToRegion[code]
LookupCall(code) ==
  /\ geoCall.fn = "none"
  /\ geoCall' = [fn |-> "lookup", code |-> code]
  /\ geoResult' = RegionOf(code)
  /\ UNCHANGED appVars
  /\ UNCHANGED serverVars

\* The dots handed to calculateRegionCentroids: two opposite dots, a third
\* one, and a dot without coordinates; id 5 is in no dot map.
ComputeDots ==
  LET dot(id, xyz) == [lat |-> 0, lon |-> 0, instanceIndex |-> id - 1, xyz |-> xyz,
                       region |-> "Europe"]
  IN [id \in 1..4 |->
        CASE id = 1 -> dot(1, <<1000, 0, 0>>)
          [] id = 2 -> dot(2, <<-1000, 0, 0>>)
          [] id = 3 -> dot(3, <<0, 600, 800>>)
          [] id = 4 -> dot(4, <<>>)]

\* The member lists of a region.
ComputeLists ==
  { <<>>, <<1>>, <<3>>, <<1, 2>>, <<1, 3>>, <<4>>, <<5>>, <<4, 3>>, <<1, 2, 4>>, <<1, 2, 3>> }

\* calculateRegionCentroids(regionDots, dotIdMap)
ComputeCall(regionDots) ==
  /\ geoCall.fn = "none"
  /\ geoCall' = [fn |-> "compute", regionDots |-> regionDots, dots |-> ComputeDots]
  /\ geoResult' = calculateRegionCentroids(regionDots, ComputeDots)
  /\ UNCHANGED appVars
  /\ UNCHANGED serverVars

MaxGrid == 5          \* the largest numPoints of a generateLatLonGrid call

DegScale == 1000      \* one degree in thousandths
GoldenAngle == 137508 \* Math.PI * (3 - Math.sqrt(5)) in thousandths of a degree

Abs(v) == IF v < 0 THEN 0 - v ELSE v

\* y = 1 - (i / (numPoints - 1)) * 2 as the fraction num / den; 0 / 0 is NaN.
GridY(i, numPoints) ==
  IF numPoints - 1 = 0 THEN [num |-> NaN, den |-> NaN]
  ELSE [num |-> (numPoints - 1) - 2 * i, den |-> numPoints - 1]

\* Math.asin(y) * (180 / Math.PI) in thousandths of a degree, tabulated for
\* the fractions with a denominator up to 6; asin is odd, asin(NaN) is NaN.
AsinDegrees(y) ==
  IF y.num = NaN THEN NaN
  ELSE LET a == Abs(y.num)
           d == y.den
           v == CASE a = 0 -> 0
                  [] a = d -> 90000
                  [] 2 * a = d -> 30000
                  [] 3 * a = d -> 19471
                  [] 3 * a = 2 * d -> 41810
                  [] 5 * a = d -> 11537
                  [] 5 * a = 3 * d -> 36870
       IN IF y.num < 0 THEN 0 - v ELSE v

\* An angle brought into [-180, 180) degrees.
WrapDegrees(t) == ((t + 180 * DegScale) % (360 * DegScale)) - 180 * DegScale

\* Math.atan2(z, x) * (180 / Math.PI) for x = cos(theta) * radiusAtY and
\* z = sin(theta) * radiusAtY, theta = phi * i: theta itself off the poles;
\* at a pole x and z are signed zeros, and atan2 gives 0 or +-180.
GridLon(i, numPoints) ==
  LET y == GridY(i, numPoints)
      theta == WrapDegrees(GoldenAngle * i)
  IN IF y.num = NaN THEN NaN
     ELSE IF Abs(y.num) # y.den THEN theta
     ELSE IF Abs(theta) < 90 * DegScale THEN 0
     ELSE IF theta > 0 THEN 180 * DegScale ELSE 0 - 180 * DegScale

\* A loop that stops one point early.
generateLatLonGrid_OneShort(numPoints) ==
  [k \in 1..(numPoints - 1) |->
     [lat |-> AsinDegrees(GridY(k - 1, numPoints)), lon |-> GridLon(k - 1, numPoints)]]

\* generateLatLonGrid(numPoints): point i of the code is element i + 1 here;
\* lat and lon are in thousandths of a degree.
generateLatLonGrid(numPoints) ==
  [k \in 1..numPoints |->
     [lat |-> AsinDegrees(GridY(k - 1, numPoints)), lon |-> GridLon(k - 1, numPoints)]]

GenerateCall(numPoints) ==
  /\ geoCall.fn = "none"
  /\ geoCall' = [fn |-> "generate", numPoints |-> numPoints]
  /\ geoResult' = generateLatLonGrid(numPoints)
  /\ UNCHANGED appVars
  /\ UNCHANGED serverVars

MaxFilterPoints == 2  \* points of one sampleLandMask call

\* The pixels of the mask image: R, G, B, A.  Two land pixels, the second just
\* above the threshold, and four pixels with one channel at the threshold.
PixelKinds ==
  { <<255, 255, 255, 255>>, <<201, 201, 201, 201>>, <<200, 255, 255, 255>>,
    <<255, 200, 255, 255>>, <<255, 255, 200, 255>>, <<255, 255, 255, 200>> }

\* The mask images: two pixels wide and two high.
MaskImages ==
  {[width |-> 2, height |-> 2, pixels |-> px] : px \in [(0..1) \X (0..1) -> PixelKinds]}

\* The points filtered: one per pixel, the two poles at the date line, and
\* the centre of the map; integer degrees.
FilterPoints ==
  { [lat |-> 45, lon |-> -90], [lat |-> 45, lon |-> 90], [lat |-> -45, lon |-> -90],
    [lat |-> -90, lon |-> 180], [lat |-> 90, lon |-> -180], [lat |-> 0, lon |-> 0] }

FilterInputs == UNION {[1..n -> FilterPoints] : n \in 0..MaxFilterPoints}

\* The pixel of a point: u = (lon + 180) / 360, v = (90 - lat) / 180,
\* x = floor(u * width) and y = floor(v * height), clamped into the image.
PixelXY(point, img) ==
  << Max(0, Min(((point.lon + 180) * img.width) \div 360, img.width - 1)),
     Max(0, Min(((90 - point.lat) * img.height) \div 180, img.height - 1)) >>

\* A land test that does not look at the alpha channel.
isLand_NoAlpha(pixelData) == pixelData[1] > 200 /\ pixelData[2] > 200 /\ pixelData[3] > 200

\* isLand: the four channels are above 200.
isLand(pixelData) ==
  pixelData[1] > 200 /\ pixelData[2] > 200 /\ pixelData[3] > 200 /\ pixelData[4] > 200

\* The indexes of the points the filter callback keeps.
LandIndexes(points, img) ==
  {i \in 1..Len(points) : isLand(img.pixels[PixelXY(points[i], img)])}

\* sampleLandMask(points, imagePath) with the image loaded.
FilterCall(points, img) ==
  /\ geoCall.fn = "none"
  /\ geoCall' = [fn |-> "filter", points |-> points, image |-> img]
  /\ geoResult' = sampleLandMask(points, LandIndexes(points, img))
  /\ UNCHANGED appVars
  /\ UNCHANGED serverVars

\* sampleLandMask on the list a first call returned, with the same image.
RefilterCall ==
  /\ geoCall.fn = "filter"
  /\ geoCall' = [fn |-> "refilter", points |-> geoResult, image |-> geoCall.image,
                 original |-> geoCall.points]
  /\ geoResult' = sampleLandMask(geoResult, LandIndexes(geoResult, geoCall.image))
  /\ UNCHANGED appVars
  /\ UNCHANGED serverVars

\* The image of the loads below: land at (0,0), (1,0) and (1,1), none at (0,1).
LoadedImage ==
  [width |-> 2, height |-> 2,
   pixels |-> [xy \in (0..1) \X (0..1) |->
                 CASE xy = <<0, 0>> -> <<255, 255, 255, 255>>
                   [] xy = <<1, 0>> -> <<201, 201, 201, 201>>
                   [] xy = <<0, 1>> -> <<255, 255, 255, 200>>
                   [] xy = <<1, 1>> -> <<255, 255, 255, 255>>]]

\* What may happen to a load of the mask: img.onerror fires; the image loads
\* and getContext('2d') returns null; the image loads and getImageData throws
\* for no pixel, for one pixel, or for every pixel (a tainted canvas).
MaskLoads ==
  { [loaded |-> FALSE, context |-> TRUE, image |-> LoadedImage, throws |-> {}],
    [loaded |-> TRUE, context |-> FALSE, image |-> LoadedImage, throws |-> {}] }
  \cup { [loaded |-> TRUE, context |-> TRUE, image |-> LoadedImage, throws |-> t] :
           t \in { {}, {<<0, 0>>}, (0..1) \X (0..1) } }

\* The filter callback with its try / catch: a pixel read that throws makes
\* the point non-land.
KeepsPoint(point, load) ==
  /\ PixelXY(point, load.image) \notin load.throws
  /\ isLand(load.image.pixels[PixelXY(point, load.image)])

\* A filter whose callback lets the exception of a pixel read escape.
sampleLandMaskPromise_NoCatch(points, load) ==
  IF ~load.loaded \/ ~load.context
       \/ \E i \in 1..Len(points) : PixelXY(points[i], load.image) \in load.throws
  THEN [state |-> "rejected", value |-> <<>>]
  ELSE [state |-> "resolved",
        value |-> sampleLandMask(points, {i \in 1..Len(points) : KeepsPoint(points[i], load)})]

\* The promise sampleLandMask returns: rejected by img.onerror and by a
\* missing 2D context, else resolved with the points the callback keeps.
sampleLandMaskPromise(points, load) ==
  IF ~load.loaded THEN [state |-> "rejected", value |-> <<>>]
  ELSE IF ~load.context THEN [state |-> "rejected", value |-> <<>>]
  ELSE [state |-> "resolved",
        value |-> sampleLandMask(points, {i \in 1..Len(points) : KeepsPoint(points[i], load)})]

\* sampleLandMask(points, imagePath), the load of the image included.
SampleLandMaskCall(points, load) ==
  /\ geoCall.fn = "none"
  /\ geoCall' = [fn |-> "sampleLandMask", points |-> points, load |-> load]
  /\ geoResult' = sampleLandMaskPromise(points, load)
  /\ UNCHANGED appVars
  /\ UNCHANGED serverVars

NextGeo ==
  \/ geoCall.fn = "none" /\ \E points \in FilterInputs : \E img \in MaskImages : FilterCall(points, img)
  \/ geoCall.fn = "none" /\ \E points \in FilterInputs : \E load \in MaskLoads : SampleLandMaskCall(points, load)
  \/ RefilterCall
  \/ geoCall.fn = "none" /\ \E numPoints \in 1..MaxGrid : GenerateCall(numPoints)
  \/ geoCall.fn = "none" /\ \E points \in AssignInputs : AssignCall(points)
  \/ geoCall.fn = "none" /\ \E code \in LookupCodes : LookupCall(code)
  \/ geoCall.fn = "none" /\ \E regionDots \in [{"Europe", "Africa"} -> ComputeLists] : ComputeCall(regionDots)

InitGeo == Init /\ localStorageBlacklist = <<>>

SpecGeo == InitGeo /\ [][NextGeo]_vars

----------------------------------------------------------------------------
(* Properties *)

\* A step of the countryUpdate effect: the only step that clears effectPending.
EffectStep == effectPending /\ ~effectPending'

\* The effect's guards pass: the globe is loaded and the slot holds an update.
GlobeLoaded == mounted /\ ~EffectNotReady(countryUpdate, instancedDotsMesh, dotIdMap)

\* An effect step that applies an update whose country has a region.
AppliedStep == EffectStep /\ GlobeLoaded /\ countryUpdate.code \in ListedCodes

\* The region of the update in the slot, from the region table.
SlotRegion == countryToRegion[countryUpdate.code]

\* The three channels of a dot in a colour array.
DotColor(array, dot) == <<array[dot.instanceIndex * 3 + 1], array[dot.instanceIndex * 3 + 2],
                          array[dot.instanceIndex * 3 + 3]>>

C1_CountsNonNegative == \A r \in DOMAIN regionOverlayCounts : regionOverlayCounts[r] >= 0

C1_UnblacklistStep ==
  (AppliedStep /\ countryUpdate.type = "unblacklist") =>
     LET c == CountOf(regionOverlayCounts, SlotRegion)
     IN regionOverlayCounts'[SlotRegion] = IF c = 0 THEN 0 ELSE c - 1

\* C1: every overlay count is >= 0 in every reachable state, and an applied
\* unblacklist for a country of region R with count c leaves R at max(0, c - 1):
\* at 0 when it was 0.
C1_OverlayCountFloor == [](C1_CountsNonNegative) /\ [][C1_UnblacklistStep]_vars

\* C1 witness: an unblacklist was applied to a region whose count was already 0.
C1_Witness ==
  /\ lastCall.op = "update" /\ lastCall.outcome = "applied" /\ lastCall.before = 0
  /\ countryUpdate.type = "unblacklist" /\ ~effectPending /\ mounted
  /\ regionOverlayCounts[SlotRegion] = 0

C2_BlacklistStep ==
  (AppliedStep /\ countryUpdate.type = "blacklist") =>
     /\ regionOverlayCounts'[SlotRegion] =
          CountOf(regionOverlayCounts, SlotRegion) + (IF countryUpdate.isInitial THEN 0 ELSE 1)
     /\ \A r \in (DOMAIN regionOverlayCounts') \ {SlotRegion} :
          r \in DOMAIN regionOverlayCounts /\ regionOverlayCounts'[r] = regionOverlayCounts[r]

\* C2: an applied blacklist(countryCode, isInitial) for a country of region R
\* changes R's count by +1 when isInitial is false and by 0 when it is true, and
\* leaves the count of every other region unchanged.
C2_BlacklistDelta == [][C2_BlacklistStep]_vars

\* C2 witness: an interactive blacklist was applied and the region's count is
\* one more than before, while another region holds a count of its own.
C2_Witness ==
  /\ lastCall.op = "update" /\ lastCall.outcome = "applied"
  /\ countryUpdate.type = "blacklist" /\ ~countryUpdate.isInitial /\ ~effectPending /\ mounted
  /\ regionOverlayCounts[SlotRegion] = lastCall.before + 1
  /\ \E r \in DOMAIN regionOverlayCounts : r # SlotRegion /\ regionOverlayCounts[r] > 0

\* The number of stored countries of each region: k of the claim.
PersistedCount(stored, regionName) ==
  Cardinality({i \in 1..Len(stored) : stored[i] \in ListedCodes
                                       /\ countryToRegion[stored[i]] = regionName})

C3_ConstructedWithK ==
  \A r \in RegionNames : regionOverlayCounts[r] = PersistedCount(localStorageBlacklist, r)

C3_ReplayStep ==
  /\ (~isMenuPanelOpen /\ isMenuPanelOpen') => regionOverlayCounts' = regionOverlayCounts
  /\ (EffectStep /\ mounted /\ countryUpdate.type = "blacklist" /\ countryUpdate.isInitial)
       => regionOverlayCounts' = regionOverlayCounts
  /\ (AppliedStep /\ countryUpdate.type = "blacklist" /\ ~countryUpdate.isInitial)
       => regionOverlayCounts'[SlotRegion] = regionOverlayCounts[SlotRegion] + 1

C4_UnknownStep ==
  (EffectStep /\ mounted /\ countryUpdate.code \notin ListedCodes) =>
     /\ regionOverlayCounts' = regionOverlayCounts
     /\ colorArray' = colorArray

\* C4: a blacklist or unblacklist update whose country code has no entry in
\* countryToRegion leaves every overlay count and every dot's colour unchanged.
C4_UnknownCodeNoOp == [][C4_UnknownStep]_vars

\* C4 witness: the loaded globe handled an update for "AG", which no region
\* lists, while a region is coloured.
C4_Witness ==
  /\ lastCall.op = "update" /\ lastCall.outcome = "unmapped" /\ lastCall.code = "AG"
  /\ ~effectPending /\ mounted /\ instancedDotsMesh
  /\ \E j \in DOMAIN colorArray : colorArray[j] # Unit

\* The colour the claim gives a count, in tenths: white at 0, one fifth of the
\* way to red per count, red from 5 on.
C5_ExpectedColor(count) ==
  IF count >= 5 THEN <<10, 0, 0>> ELSE <<10, 10 - 2 * count, 10 - 2 * count>>

C5_ColorStep ==
  AppliedStep =>
     LET c == regionOverlayCounts'[SlotRegion]
     IN /\ \A id \in DOMAIN dotIdMap :
             dotIdMap[id].region = SlotRegion =>
                DotColor(colorArray', dotIdMap[id]) = C5_ExpectedColor(c)
        /\ OverlayStrength(c) <= 10
        /\ OverlayStrength(c) <= OverlayStrength(c + 1)
        /\ OverlayStrength(c) = (IF c >= 5 THEN 10 ELSE 2 * c)

\* C5: the colour an update writes for a region is lerp(white, red, strength)
\* with strength = min(count * 0.2, 1.0) for the count after the update: white
\* at 0, a 20% blend at 1, full red from 5 on; strength never decreases with
\* the count and never exceeds 1.
C5_DisplayColor == [][C5_ColorStep]_vars

\* C5 witness: an update was applied that left a region with dots at count 6,
\* and its dots are full red.
C5_Witness ==
  /\ lastCall.op = "update" /\ lastCall.outcome = "applied" /\ ~effectPending /\ mounted
  /\ regionOverlayCounts[SlotRegion] = 6
  /\ \E id \in DOMAIN dotIdMap :
       dotIdMap[id].region = SlotRegion /\ DotColor(colorArray, dotIdMap[id]) = <<10, 0, 0>>

C6_FrameStep ==
  AppliedStep =>
     /\ \A id \in DOMAIN dotIdMap :
          IF dotIdMap[id].region = SlotRegion
          THEN DotColor(colorArray', dotIdMap[id]) = FinalColor(regionOverlayCounts'[SlotRegion])
          ELSE DotColor(colorArray', dotIdMap[id]) = DotColor(colorArray, dotIdMap[id])
     /\ DOMAIN colorArray' = DOMAIN colorArray
     /\ instanceMatrix' = instanceMatrix
     /\ dotIdMap' = dotIdMap

\* C6: a region colour update for region R overwrites the colour of exactly the
\* dots whose region is R, at indexes instanceIndex*3..+2, and leaves the colour
\* of every other dot and every dot's transform unchanged.
C6_RegionColorFrame == [][C6_FrameStep]_vars

\* C6 witness: an update was applied, the dots of its region are coloured and
\* a dot of another region is still white.
C6_Witness ==
  /\ lastCall.op = "update" /\ lastCall.outcome = "applied" /\ ~effectPending /\ mounted
  /\ \E id \in DOMAIN dotIdMap :
       dotIdMap[id].region = SlotRegion /\ DotColor(colorArray, dotIdMap[id]) # White
  /\ \E id \in DOMAIN dotIdMap :
       dotIdMap[id].region # SlotRegion /\ DotColor(colorArray, dotIdMap[id]) = White

\* C7: every blacklist / unblacklist event issued for a region is applied to
\* its count exactly once and in arrival order: once the globe has handled the
\* slot, the counts are those of all issued events applied in order.
C7_EveryEventApplied ==
  (mounted /\ ~effectPending) =>
     \A r \in RegionNames : CountOf(regionOverlayCounts, r) = CountOf(issuedCounts, r)

\* A message or arc call was handled: a handler that leaves lastCall as it was
\* has called nothing and changed nothing.
HandledStep == lastCall' # lastCall /\ lastCall'.op \in {"drawArc", "message"}

\* The messages a handled step can be the handling of, by the call it
\* recorded: a trafficUpdate whose last element with a code is that of the
\* call, or a message of the recorded outcome.  OnMessage(msg) implies it.
Candidate(msg) ==
  /\ HandledStep
  /\ IF msg.kind = "trafficUpdate"
     THEN /\ lastCall'.op = "drawArc"
          /\ \E i \in DOMAIN msg.payload :
               /\ msg.payload[i] = lastCall'.code
               /\ \A j \in DOMAIN msg.payload : j > i => msg.payload[j] = ""
     ELSE lastCall'.op = "message" /\ lastCall'.outcome = MessageOutcome(msg)

\* The codes of the claim: no region mapping, or a country of the target region.
C8_SuppressedCodes == {c \in ArcCodes \cup {""} : c \notin ListedCodes \/ c \in {"US", "CA", "MX"}}

C8_NoSuppressedArc ==
  \A i \in DOMAIN arcLog : arcLog[i].source \notin {Null, Undefined, "NorthAmerica"}

C8_SuppressedStep ==
  \A msg \in Messages :
     (/\ Candidate(msg)
      /\ \A i \in DOMAIN msg.payload : msg.payload[i] \in C8_SuppressedCodes
      /\ OnMessage(msg))
        => UNCHANGED <<activeArcs, timers, globeChildren, arcLog>>

\* C8: drawTrafficArc creates no arc and schedules no timer when the source
\* code has no region mapping, maps to "Undefined", or maps to the target region
\* "NorthAmerica": the active arcs and the timers are unchanged by such calls.
C8_ArcSuppression == [](C8_NoSuppressedArc) /\ [][C8_SuppressedStep]_vars

\* C8 witness: with an arc already active, the ready globe handled a call for
\* "US" and created nothing.
C8_Witness ==
  /\ lastCall.op = "drawArc" /\ lastCall.code = "US" /\ lastCall.outcome = "sameRegion"
  /\ globeSphere /\ DOMAIN regionCentroidsMap # {}
  /\ Len(activeArcs) = 1 /\ Len(arcLog) = 1 /\ lastCall.before = 1 /\ Cardinality(timers) = 1

\* C9: no arc is created when the centroid of the source region or of the
\* target region is the zero vector.
C9_NoArcFromZeroCentroid ==
  \A i \in DOMAIN arcLog :
     arcLog[i].startPoint # ZeroVector /\ arcLog[i].endPoint # ZeroVector

ActiveSet == SeqToSet(activeArcs)

\* C10 as stated: an arc created at T is active at every time up to T+4999 and
\* at no time from T+5001 on.
C10_ExactLifetime ==
  \A i \in DOMAIN arcLog :
     /\ now <= arcLog[i].createdAt + 4999 => i \in ActiveSet
     /\ now >= arcLog[i].createdAt + 5001 => i \notin ActiveSet

C10_WhileMounted ==
  \A i \in DOMAIN arcLog :
     /\ (mounted /\ now < arcLog[i].createdAt + 5000) => i \in ActiveSet
     /\ i \in ActiveSet => [arc |-> i, due |-> arcLog[i].createdAt + 5000] \in timers
     /\ (mounted /\ \E timer \in timers : timer.arc = i) => i \in ActiveSet

C10_RemovalStep ==
  \A i \in DOMAIN arcLog :
     /\ (i \in ActiveSet /\ i \notin SeqToSet(activeArcs')) =>
          \/ mounted /\ ~mounted'
          \/ /\ now >= arcLog[i].createdAt + 5000
             /\ timers' = timers \ {[arc |-> i, due |-> arcLog[i].createdAt + 5000]}
     /\ i \notin ActiveSet => i \notin SeqToSet(activeArcs')

\* C10 amended: while the globe is mounted an arc created at T is active at
\* every time before T+5000; it leaves the active arcs only by its own timer
\* callback, which runs at T+5000 or later, or by teardown, and never returns.
C10_Lifetime == [](C10_WhileMounted) /\ [][C10_RemovalStep]_vars

\* C10 witness: on the mounted globe the timer of an arc has removed it at its
\* due time or later while a younger arc is still active.
C10_Witness ==
  /\ mounted
  /\ \E i, j \in DOMAIN arcLog :
       /\ i \notin ActiveSet /\ now >= arcLog[i].createdAt + 5000
       /\ j \in ActiveSet /\ arcLog[j].createdAt > arcLog[i].createdAt
       /\ now <= arcLog[j].createdAt + 4999

\* The payload elements for which drawTrafficArc creates an arc in the current
\* state: a code of a region other than the target, both centroids present.
C11_Drawable(code) ==
  /\ code \in ListedCodes /\ countryToRegion[code] \notin {"NorthAmerica", Undefined}
  /\ globeSphere
  /\ countryToRegion[code] \in DOMAIN regionCentroidsMap
  /\ "NorthAmerica" \in DOMAIN regionCentroidsMap

C11_MessageStep ==
  \A msg \in Messages :
     (Candidate(msg) /\ OnMessage(msg)) =>
        IF msg.kind = "trafficUpdate"
        THEN LET drawn == SelectSeq(msg.payload, C11_Drawable)
             IN /\ Len(arcLog') = Len(arcLog) + Len(drawn)
                /\ \A k \in 1..Len(drawn) :
                     /\ arcLog'[Len(arcLog) + k].source = countryToRegion[drawn[k]]
                     /\ arcLog'[Len(arcLog) + k].createdAt = now
                /\ activeArcs' = activeArcs \o [k \in 1..Len(drawn) |-> Len(arcLog) + k]
                /\ (loadPc = "done" /\ \A i \in DOMAIN msg.payload : C11_Drawable(msg.payload[i]))
                      => Len(activeArcs') = Len(activeArcs) + Len(msg.payload)
        ELSE arcLog' = arcLog /\ activeArcs' = activeArcs /\ timers' = timers

\* C11: a trafficUpdate message calls drawTrafficArc once per payload element
\* that carries a countryCode, in payload order: the arcs it adds are those of
\* the elements whose country maps to a region other than the target with both
\* centroids present, one each and in payload order, so k such elements add
\* exactly k arcs; a message of any other type adds none.
C11_OneArcPerElement == [][C11_MessageStep]_vars

\* C11 witness: after the load, one message of two elements has added two
\* arcs, created at the same instant, in payload order.
C11_Witness ==
  /\ loadPc = "done" /\ mounted /\ wsState = "open"
  /\ lastCall.op = "drawArc" /\ lastCall.outcome = "created" /\ lastCall.before = 1
  /\ Len(arcLog) = 2 /\ activeArcs = <<1, 2>>
  /\ arcLog[1].createdAt = arcLog[2].createdAt /\ arcLog[1].createdAt = now

C12_Malformed == {msg \in Messages : msg.kind \in {"badJson", "notAList"}}

C12_DropStep ==
  \A msg \in C12_Malformed :
     (Candidate(msg) /\ OnMessage(msg)) =>
        /\ UNCHANGED <<globeChildren, activeArcs, timers, arcLog, disposed>>
        /\ wsState' = "open"
        /\ UNCHANGED <<regionOverlayCounts, colorArray, dotIdMap, regionCentroidsMap, countryUpdate>>

C12_LaterStep ==
  \A msg \in Messages :
     (/\ lastCall.op = "message" /\ lastCall.outcome = "threw" /\ Candidate(msg)
      /\ msg.kind = "trafficUpdate"
      /\ \A i \in DOMAIN msg.payload : C11_Drawable(msg.payload[i])
      /\ OnMessage(msg))
        => /\ Len(activeArcs') = Len(activeArcs) + Len(msg.payload)
           /\ Cardinality(timers') = Cardinality(timers) + Len(msg.payload)

\* C12: a message that fails to parse, or a trafficUpdate whose payload is not
\* a list, is dropped: no arc, timer or other globe state changes and the
\* socket stays open; a well-formed message handled after the drop adds its
\* arcs and timers as usual.
C12_MalformedDropped == [][C12_DropStep /\ C12_LaterStep]_vars

\* C12 witness: the ready globe dropped a malformed message while an arc was
\* active; the arc, its timer and the open socket are as before.
C12_Witness ==
  /\ lastCall.op = "message" /\ lastCall.outcome = "threw" /\ lastCall.before = 1
  /\ wsState = "open" /\ mounted /\ loadPc = "done"
  /\ activeArcs = <<1>> /\ Cardinality(timers) = 1
  /\ C11_Drawable("FR")

C13_SocketStep ==
  /\ wsState = "closed" => wsState' = "closed"
  /\ wsState = "open" => wsState' \in {"open", "closed"}
  /\ wsState' = "connecting" => wsState = "connecting"
  /\ wsState # "open" => (arcLog' = arcLog /\ Len(activeArcs') <= Len(activeArcs))

\* C13: the socket of a mount is created once: it goes from connecting to open
\* to closed and never back, a closed socket stays closed, and no arc is
\* created while the socket is not open, so none after the connection is lost.
C13_NoReconnect == [][C13_SocketStep]_vars

\* C13 witness: the mounted, loaded globe lost its connection after one arc;
\* the arc has expired since and no other was created.
C13_Witness ==
  /\ wsState = "closed" /\ mounted /\ loadPc = "done" /\ C11_Drawable("FR")
  /\ Len(arcLog) = 1 /\ activeArcs = <<>> /\ now >= arcLog[1].createdAt + 5000

\* The eleven declared region names, in the order of the declaration.
DeclaredOrder ==
  <<"NorthAmerica", "SouthAmerica", "CentralAsia", "Europe", "Africa", "EastAsia",
    "SouthAsia", "SoutheastAsia", "WestAsia", "NorthAsia", "Oceania">>

\* The region named name holds the point within its bounds, sides included.
Contains(name, lat, lon) ==
  \E i \in RegionIndexes :
     /\ regionDefinitions[i].name = name
     /\ lat # NaN /\ lon # NaN
     /\ regionDefinitions[i].latMin <= lat /\ lat <= regionDefinitions[i].latMax
     /\ regionDefinitions[i].lonMin <= lon /\ lon <= regionDefinitions[i].lonMax

C15_FirstMatchWins ==
  geoCall.fn = "assign" =>
     \A id \in DOMAIN geoResult.dots :
        LET dot == geoResult.dots[id]
        IN \A k \in 1..11 :
              (/\ Contains(DeclaredOrder[k], dot.lat, dot.lon)
               /\ \A j \in 1..(k - 1) : ~Contains(DeclaredOrder[j], dot.lat, dot.lon))
                 => dot.region = DeclaredOrder[k]

\* C15 witness: the dot at lat 35, lon 60, inside CentralAsia, SouthAsia and
\* WestAsia, is in CentralAsia, and the dot on the corner of NorthAsia's bounds
\* at lat 50, lon 60 is in NorthAsia.
C15_Witness ==
  /\ geoCall.fn = "assign"
  /\ \E id \in DOMAIN geoResult.dots :
       /\ geoResult.dots[id].lat = 35 /\ geoResult.dots[id].lon = 60
       /\ Contains("SouthAsia", 35, 60) /\ Contains("WestAsia", 35, 60)
       /\ geoResult.dots[id].region = "CentralAsia"
  /\ \E id \in DOMAIN geoResult.dots :
       /\ geoResult.dots[id].lat = 50 /\ geoResult.dots[id].lon = 60
       /\ geoResult.dots[id].region = "NorthAsia"

\* The regions whose countries list holds the code.
ListingRegions(code) ==
  {i \in RegionIndexes : code \in SeqToSet(regionDefinitions[i].countries)}

\* C16: countryToRegion maps each listed code to one region that lists it,
\* every code is in at most one region's countries list, and a code listed
\* twice resolves to the later-declared region.
C16_OneRegionPerCode ==
  (geoCall.fn = "lookup" /\ geoCall.code \in ListedCodes) =>
     /\ \E i \in ListingRegions(geoCall.code) : regionDefinitions[i].name = geoResult
     /\ \A i \in ListingRegions(geoCall.code) :
          \E j \in ListingRegions(geoCall.code) : j >= i /\ regionDefinitions[j].name = geoResult
     /\ Cardinality(ListingRegions(geoCall.code)) <= 1

\* The sum of the coordinates of the members that have coordinates.
MemberSum(ids, dots) ==
  [k \in 1..3 |-> SumCoord(SelectSeq(ids, LAMBDA id : id \in DOMAIN dots /\ dots[id].xyz # <<>>),
                            dots, k, 1)]

\* C17: calculateRegionCentroids returns an entry for every region key of
\* regionDots; a region with no members, with no member that has coordinates,
\* or whose members average to the zero vector gets exactly <<0, 0, 0>>.
C17_CentroidTotal ==
  geoCall.fn = "compute" =>
     /\ DOMAIN geoResult = DOMAIN geoCall.regionDots
     /\ \A r \in DOMAIN geoCall.regionDots :
          LET ids == geoCall.regionDots[r]
              dots == geoCall.dots
          IN /\ Len(geoResult[r]) = 3
             /\ (\/ ids = <<>>
                 \/ \A i \in DOMAIN ids : ids[i] \notin DOMAIN dots \/ dots[ids[i]].xyz = <<>>
                 \/ MemberSum(ids, dots) = <<0, 0, 0>>)
                   => geoResult[r] = <<0, 0, 0>>

\* C17 witness: one call with a region of two opposite dots, whose average is
\* the zero vector, and a region whose only member has no coordinates.
C17_Witness ==
  /\ geoCall.fn = "compute"
  /\ geoCall.regionDots["Europe"] = <<1, 2>> /\ geoResult["Europe"] = <<0, 0, 0>>
  /\ geoCall.regionDots["Africa"] = <<4>> /\ geoResult["Africa"] = <<0, 0, 0>>

\* C18: for n >= 2 generateLatLonGrid(n) returns n points whose latitude
\* strictly decreases with the index, from +90 at the first to -90 at the last,
\* so no two points have the same (lat, lon); every point is a GeoPoint.
C18_GridPoints ==
  (geoCall.fn = "generate" /\ geoCall.numPoints >= 2) =>
     /\ Len(geoResult) = geoCall.numPoints
     /\ \A k \in 1..(Len(geoResult) - 1) : geoResult[k].lat > geoResult[k + 1].lat
     /\ geoResult[1].lat = 90000 /\ geoResult[Len(geoResult)].lat = -90000
     /\ \A k, l \in DOMAIN geoResult : k # l => geoResult[k] # geoResult[l]
     /\ \A k \in DOMAIN geoResult :
          /\ geoResult[k].lat # NaN /\ geoResult[k].lon # NaN
          /\ -180000 <= geoResult[k].lon /\ geoResult[k].lon <= 180000

\* C18 witness: a grid of five points, the third on the equator.
C18_Witness ==
  /\ geoCall.fn = "generate" /\ geoCall.numPoints = 5
  /\ Len(geoResult) = 5 /\ geoResult[3].lat = 0 /\ geoResult[2].lat = 30000

\* C19: generateLatLonGrid(1) returns one point with a defined latitude in
\* [-90, 90] and a defined longitude in [-180, 180].
C19_SinglePointDefined ==
  (geoCall.fn = "generate" /\ geoCall.numPoints = 1) =>
     /\ Len(geoResult) = 1
     /\ geoResult[1].lat # NaN /\ geoResult[1].lon # NaN
     /\ -90000 <= geoResult[1].lat /\ geoResult[1].lat <= 90000
     /\ -180000 <= geoResult[1].lon /\ geoResult[1].lon <= 180000

\* The pixel the filter samples for a point has R, G, B and A above 200.
AllAbove200(point, img) ==
  \A c \in 1..4 : img.pixels[PixelXY(point, img)][c] > 200

\* C20: the land filter returns exactly the points whose sampled pixel has R,
\* G, B and A all above 200, in the order of the input, and filtering its
\* result again with the same mask returns the same list.
C20_FilterIdempotent ==
  /\ geoCall.fn \in {"filter", "refilter"} =>
        geoResult = SelectSeq(geoCall.points, LAMBDA pt : AllAbove200(pt, geoCall.image))
  /\ geoCall.fn = "refilter" => geoResult = geoCall.points

\* C20 witness: a list of two points of which the first filtering kept the
\* second only, and the second filtering returned that list again.
C20_Witness ==
  /\ geoCall.fn = "refilter"
  /\ Len(geoCall.original) = 2 /\ geoCall.points = <<geoCall.original[2]>>
  /\ geoCall.original[1] # geoCall.original[2]
  /\ geoResult = geoCall.points

\* C21 as stated: sampleLandMask rejects only when the image cannot be loaded.
C21_RejectsOnlyOnImageFailure ==
  (geoCall.fn = "sampleLandMask" /\ geoResult.state = "rejected") => ~geoCall.load.loaded

\* C21 amended: sampleLandMask rejects exactly when the image cannot be loaded
\* or no 2D context is obtained for it; otherwise it resolves with the points,
\* in input order, whose pixel was read without an exception and has the four
\* channels above 200: a pixel read that throws drops that point only.
C21_RejectCases ==
  geoCall.fn = "sampleLandMask" =>
     /\ geoResult.state \in {"rejected", "resolved"}
     /\ geoResult.state = "rejected" <=> (~geoCall.load.loaded \/ ~geoCall.load.context)
     /\ geoResult.state = "resolved" =>
          geoResult.value =
            SelectSeq(geoCall.points,
                      LAMBDA pt : /\ PixelXY(pt, geoCall.load.image) \notin geoCall.load.throws
                                  /\ AllAbove200(pt, geoCall.load.image))

\* C21 witness: the pixel read of the first of two land points threw; the
\* call resolved with the second point alone.
C21_Witness ==
  /\ geoCall.fn = "sampleLandMask" /\ geoResult.state = "resolved"
  /\ Len(geoCall.points) = 2 /\ geoCall.load.throws = {<<0, 0>>}
  /\ PixelXY(geoCall.points[1], geoCall.load.image) = <<0, 0>>
  /\ AllAbove200(geoCall.points[1], geoCall.load.image)
  /\ geoResult.value = <<geoCall.points[2]>>

\* C22: after the land-mask image failed to load, no dot, region bucket or
\* centroid exists and the loading indicator of the mounted globe stays shown.
C22_FailureKeepsIndicator ==
  (loadPc = "failed" /\ mounted) =>
     /\ dotIdMap = EmptyMap /\ regionDotsMap = EmptyMap /\ regionCentroidsMap = EmptyMap
     /\ isLoading

\* The initial pipeline has completed: the load ran to its end, every dot
\* carries a region name, every dot is in the bucket of its region, and the
\* centroid map has an entry for every bucket.
PipelineComplete ==
  /\ loadPc = "done"
  /\ DOMAIN dotIdMap # {}
  /\ \A id \in DOMAIN dotIdMap : dotIdMap[id].region \in RegionNames \cup {Undefined}
  /\ RegionNames \subseteq DOMAIN regionDotsMap
  /\ \A id \in DOMAIN dotIdMap :
        /\ dotIdMap[id].region \in DOMAIN regionDotsMap
        /\ id \in SeqToSet(regionDotsMap[dotIdMap[id].region])
  /\ DOMAIN regionCentroidsMap = DOMAIN regionDotsMap

\* C23: a step that creates an arc, and an overlay update that changes a dot
\* colour, start in a state where the initial pipeline has completed.
C23_ConsumersAfterPipeline ==
  [][(Len(arcLog') > Len(arcLog) \/ (EffectStep /\ colorArray' # colorArray))
       => PipelineComplete]_vars

\* C23 witness: an arc was created and the last overlay update coloured a dot.
C23_Witness ==
  /\ Len(arcLog) > 0
  /\ lastCall.op = "update" /\ lastCall.outcome = "applied"
  /\ \E j \in DOMAIN colorArray : colorArray[j] # Unit

\* C24: after teardown the active-arc set is empty, and across timer expiry
\* and teardown the geometry and material of an arc are released at most once
\* (exactly once, once the arc has left the active set with no timer pending).
C24_ReleasedOnce ==
  /\ ~mounted => activeArcs = <<>>
  /\ \A arc \in DOMAIN disposed :
        /\ disposed[arc] <= 1
        /\ (arc \notin ActiveSet /\ \A timer \in timers : timer.arc # arc) => disposed[arc] = 1

\* C25: an overlay update of region R visits only the dots that are members
\* of R.
C25_VisitsOnlyRegion ==
  [][AppliedStep => ScannedDots(dotIdMap, SlotRegion) \subseteq DotsOfRegion(dotIdMap, SlotRegion)]_vars

\* C26: once the load pipeline has completed, the colour of every dot of the
\* mounted globe is lerp(white, red, min(count[dot.region] * 0.2, 1.0)); dots
\* of a region with count 0 and dots of "Undefined" are white.
C26_ColourMatchesCount ==
  (mounted /\ PipelineComplete) =>
     \A id \in DOMAIN dotIdMap :
        /\ DotColor(colorArray, dotIdMap[id])
             = FinalColor(CountOf(regionOverlayCounts, dotIdMap[id].region))
        /\ (CountOf(regionOverlayCounts, dotIdMap[id].region) = 0
             \/ dotIdMap[id].region = Undefined) => DotColor(colorArray, dotIdMap[id]) = White

\* C26 witness: after the load and an applied interactive update, a dot of a
\* region with a positive count is tinted, a dot of a region with count 0 is
\* white, and a dot of "Undefined" is white.
C26_Witness ==
  /\ mounted /\ PipelineComplete
  /\ lastCall.op = "update" /\ lastCall.outcome = "applied"
  /\ \E id \in DOMAIN dotIdMap :
        /\ CountOf(regionOverlayCounts, dotIdMap[id].region) > 0
        /\ DotColor(colorArray, dotIdMap[id]) # White
  /\ \E id \in DOMAIN dotIdMap :
        /\ dotIdMap[id].region # Undefined
        /\ CountOf(regionOverlayCounts, dotIdMap[id].region) = 0
        /\ DotColor(colorArray, dotIdMap[id]) = White
  /\ \E id \in DOMAIN dotIdMap :
        dotIdMap[id].region = Undefined /\ DotColor(colorArray, dotIdMap[id]) = White

\* C27: whenever the mounted globe has no update left to handle, its overlay
\* count of every region is the number of countries of the menu panel's
\* persisted blacklist that map to the region.
C27_CountsMatchPersisted ==
  (mounted /\ ~effectPending) =>
     \A r \in RegionNames : CountOf(regionOverlayCounts, r) = PersistedCount(localStorageBlacklist, r)

\* C28: once the globe is torn down, the dot map, the region buckets and the
\* centroid map are empty and no instanced mesh is referenced, also after a
\* load that was pending at teardown has completed.
C28_TeardownFinal ==
  ~mounted =>
     /\ dotIdMap = EmptyMap /\ regionDotsMap = EmptyMap /\ regionCentroidsMap = EmptyMap
     /\ ~instancedDotsMesh

\* C29: after teardown no step creates an arc or schedules a timer, and the
\* active-arc set stays empty.
C29_NoArcAfterTeardown ==
  [][~mounted => /\ arcLog' = arcLog
                 /\ activeArcs = <<>> /\ activeArcs' = <<>>
                 /\ timers' \subseteq timers]_vars

\* C29 witness: the globe was loaded, then torn down while the socket was
\* still connecting; the socket opened and a trafficUpdate for FR was handled:
\* no arc, no timer.
C29_Witness ==
  /\ ~mounted /\ wsState = "open"
  /\ instanceMatrix # <<>> /\ dotIdMap = EmptyMap
  /\ lastCall.op = "drawArc" /\ lastCall.code = "FR" /\ lastCall.outcome = "notReady"
  /\ activeArcs = <<>> /\ timers = {} /\ arcLog = <<>>

\* The step is the handling of a message by the server.
ServerHandledStep == serverCall' # serverCall

\* C30: a non-empty JSON object received from socket A is sent as one
\* trafficUpdate to every other socket that is open, and to no other socket;
\* an empty object or an unparsable message is sent to no socket; the set of
\* connected sockets is unchanged in both cases.
C30_Broadcast ==
  [][ServerHandledStep =>
       LET call == serverCall'
       IN /\ browserClients' = browserClients
          /\ (call.msg.kind = "object" /\ Len(call.msg.entries) > 0) =>
                /\ \A client \in Clients :
                      call.sends[client] =
                        IF client # call.from /\ readyState[client] = "open" THEN 1 ELSE 0
                /\ Len(call.payload) = Len(call.msg.entries)
                /\ \A i \in DOMAIN call.payload :
                      /\ call.payload[i].ip = call.msg.entries[i][1]
                      /\ call.payload[i].countryCode = call.msg.entries[i][2]
          /\ (call.msg.kind = "unparsable"
               \/ (call.msg.kind = "object" /\ Len(call.msg.entries) = 0)) =>
                \A client \in Clients : call.sends[client] = 0]_vars

====
